---- MODULE Spec2Model ----
(***************************************************************************)
(* Sleep-diary to GGIR advanced-sleeplog conversion                        *)
(* (src/convert_sleeplog.py) and the Streamlit session that drives it      *)
(* (src/app.py).                                                           *)
(*                                                                         *)
(* Python strings are modelled as sequences of character codes, so that    *)
(* strftime output, f-string labels, the empty string and the              *)
(* lexicographic order of sorted() and of >= / <= on str are computed      *)
(* rather than assumed.  A pandas Timestamp is its epoch value in minutes  *)
(* (the source format "%m/%d/%y %H:%M" has minute resolution); NaT is a    *)
(* separate flag.                                                          *)
(***************************************************************************)
EXTENDS Integers, Sequences, FiniteSets, TLC

\* ------------------------------------------------------------------------
\* Bounds of the model
\* ------------------------------------------------------------------------
MaxEpisodes == 2
MaxSegments == 2

\* ------------------------------------------------------------------------
\* Strings
\* ------------------------------------------------------------------------
EmptyStr == <<>>
STR_ID == <<73, 68>>
STR_date == <<100, 97, 116, 101>>
STR_wakeup == <<119, 97, 107, 101, 117, 112>>
STR_inbed == <<105, 110, 98, 101, 100>>

RECURSIVE Digits(_)
Digits(n) == IF n < 10 THEN <<48 + n>> ELSE Digits(n \div 10) \o <<48 + (n % 10)>>

Pad2(n) == <<48 + ((n \div 10) % 10), 48 + (n % 10)>>
Pad4(n) == <<48 + ((n \div 1000) % 10), 48 + ((n \div 100) % 10)>> \o Pad2(n % 100)

RECURSIVE StrLess(_, _)
StrLess(a, b) ==
    IF b = <<>> THEN FALSE
    ELSE IF a = <<>> THEN TRUE
    ELSE IF Head(a) < Head(b) THEN TRUE
    ELSE IF Head(a) > Head(b) THEN FALSE
    ELSE StrLess(Tail(a), Tail(b))

StrGe(a, b) == ~StrLess(a, b)
StrLe(a, b) == ~StrLess(b, a)

RECURSIVE RemoveChar(_, _)
RemoveChar(s, c) ==
    IF s = <<>> THEN <<>>
    ELSE IF Head(s) = c THEN RemoveChar(Tail(s), c)
    ELSE <<Head(s)>> \o RemoveChar(Tail(s), c)

RECURSIVE LStrip(_)
LStrip(s) == IF s /= <<>> /\ Head(s) = 32 THEN LStrip(Tail(s)) ELSE s

RECURSIVE RStrip(_)
RStrip(s) ==
    IF s /= <<>> /\ s[Len(s)] = 32 THEN RStrip(SubSeq(s, 1, Len(s) - 1)) ELSE s

Strip(s) == RStrip(LStrip(s))

sanitise_id(raw_id) == RemoveChar(raw_id, 47)

\* ------------------------------------------------------------------------
\* Timestamps
\* ------------------------------------------------------------------------
MinutesPerDay == 1440

DaysFromCivil(y, m, d) ==
    LET yy  == IF m <= 2 THEN y - 1 ELSE y
        era == yy \div 400
        yoe == yy - era * 400
        mp  == IF m > 2 THEN m - 3 ELSE m + 9
        doy == (153 * mp + 2) \div 5 + d - 1
        doe == yoe * 365 + yoe \div 4 - yoe \div 100 + doy
    IN  era * 146097 + doe - 719468

CivilFromDays(z) ==
    LET zz  == z + 719468
        era == zz \div 146097
        doe == zz - era * 146097
        yoe == (doe - doe \div 1460 + doe \div 36524 - doe \div 146096) \div 365
        doy == doe - (365 * yoe + yoe \div 4 - yoe \div 100)
        mp  == (5 * doy + 2) \div 153
        d   == doy - (153 * mp + 2) \div 5 + 1
        m   == IF mp < 10 THEN mp + 3 ELSE mp - 9
        y   == yoe + era * 400 + (IF m <= 2 THEN 1 ELSE 0)
    IN  <<y, m, d>>

NaT == [nat |-> TRUE, value |-> 0]
Timestamp(v) == [nat |-> FALSE, value |-> v]

notna(dt) == ~dt.nat

TsHour(dt) == (dt.value % MinutesPerDay) \div 60
TsMinute(dt) == dt.value % 60
TsDate(dt) == CivilFromDays(dt.value \div MinutesPerDay)

MinusOneDay(dt) == Timestamp(dt.value - MinutesPerDay)

StrfDate(dt) ==
    LET c == TsDate(dt)
    IN  Pad4(c[1]) \o <<45>> \o Pad2(c[2]) \o <<45>> \o Pad2(c[3])

\* A CSV cell: empty (NaN after read_csv) or text "mo/dd/yy HH:MM".
NaNCell == [kind |-> "nan", mo |-> 0, dd |-> 0, yy |-> 0, HH |-> 0, MM |-> 0]
TextCell(mo, dd, yy, HH, MM) ==
    [kind |-> "text", mo |-> mo, dd |-> dd, yy |-> yy, HH |-> HH, MM |-> MM]

IsLeap(y) == (y % 4 = 0 /\ y % 100 /= 0) \/ y % 400 = 0
DaysInMonth(y, m) ==
    IF m = 2 THEN (IF IsLeap(y) THEN 29 ELSE 28)
    ELSE IF m \in {4, 6, 9, 11} THEN 30 ELSE 31

to_datetime(cell) ==
    IF cell.kind = "nan" THEN NaT
    ELSE LET y == IF cell.yy < 69 THEN 2000 + cell.yy ELSE 1900 + cell.yy
         IN  IF /\ cell.mo \in 1..12
                /\ cell.dd >= 1
                /\ cell.dd <= DaysInMonth(y, cell.mo)
                /\ cell.HH \in 0..23
                /\ cell.MM \in 0..59
             THEN Timestamp(DaysFromCivil(y, cell.mo, cell.dd) * MinutesPerDay
                            + cell.HH * 60 + cell.MM)
             ELSE NaT

\* Mutant: the cutoff hour itself is treated as "before the cutoff".
calendar_date_for_inbed_le(dt, noon_cutoff) ==
    IF TsHour(dt) <= noon_cutoff THEN StrfDate(MinusOneDay(dt)) ELSE StrfDate(dt)

calendar_date_for_inbed(dt, noon_cutoff) ==
    IF TsHour(dt) < noon_cutoff THEN StrfDate(MinusOneDay(dt)) ELSE StrfDate(dt)

\* Mutant: the wakeup goes through the midnight-crossing rule of the bedtime.
calendar_date_for_wakeup_shifted(dt) ==
    IF TsHour(dt) < 12 THEN StrfDate(MinusOneDay(dt)) ELSE StrfDate(dt)

calendar_date_for_wakeup(dt) == StrfDate(dt)

fmt_time(dt) == Pad2(TsHour(dt)) \o <<58>> \o Pad2(TsMinute(dt)) \o <<58>> \o Pad2(0)

\* ------------------------------------------------------------------------
\* Optional values (None) and truthiness of str | None
\* ------------------------------------------------------------------------
None == [none |-> TRUE, str |-> <<>>]
Some(s) == [none |-> FALSE, str |-> s]
Truthy(o) == ~o.none /\ o.str /= <<>>

\* ------------------------------------------------------------------------
\* build_wide_row
\* ------------------------------------------------------------------------
RECURSIVE sorted(_)
sorted(S) ==
    IF S = {} THEN <<>>
    ELSE LET m == CHOOSE a \in S : \A b \in S : ~StrLess(b, a)
         IN  <<m>> \o sorted(S \ {m})

\* Mutant: the range bounds are exclusive.
RECURSIVE FilterStrict(_, _, _)
FilterStrict(ds, bound, lower) ==
    IF ds = <<>> THEN <<>>
    ELSE LET keep == IF lower THEN StrLess(bound, Head(ds)) ELSE StrLess(Head(ds), bound)
         IN  (IF keep THEN <<Head(ds)>> ELSE <<>>) \o FilterStrict(Tail(ds), bound, lower)

RECURSIVE Filter(_, _, _)
Filter(ds, bound, lower) ==
    IF ds = <<>> THEN <<>>
    ELSE LET keep == IF lower THEN StrGe(Head(ds), bound) ELSE StrLe(Head(ds), bound)
         IN  (IF keep THEN <<Head(ds)>> ELSE <<>>) \o Filter(Tail(ds), bound, lower)

filtered_dates(calendar, start_date, end_date) ==
    LET s0 == sorted(DOMAIN calendar)
        s1 == IF Truthy(start_date) THEN Filter(s0, start_date.str, TRUE) ELSE s0
        s2 == IF Truthy(end_date) THEN Filter(s1, end_date.str, FALSE) ELSE s1
    IN  s2

Label(i, suffix) == <<68>> \o Digits(i) \o <<95>> \o suffix

entry_get(entry, key) == IF key \in DOMAIN entry THEN entry[key] ELSE EmptyStr

RECURSIVE header_from(_, _)
header_from(i, n) ==
    IF i > n THEN <<>>
    ELSE <<Label(i, STR_date), Label(i, STR_wakeup), Label(i, STR_inbed)>>
         \o header_from(i + 1, n)

\* Mutant: the wakeup and inbed cells of a date are written in the wrong order.
RECURSIVE values_from_swapped(_, _)
values_from_swapped(ds, calendar) ==
    IF ds = <<>> THEN <<>>
    ELSE LET entry == calendar[Head(ds)]
         IN  <<Head(ds), entry_get(entry, "inbed"), entry_get(entry, "wakeup")>>
             \o values_from_swapped(Tail(ds), calendar)

RECURSIVE values_from(_, _)
values_from(ds, calendar) ==
    IF ds = <<>> THEN <<>>
    ELSE LET entry == calendar[Head(ds)]
         IN  <<Head(ds), entry_get(entry, "wakeup"), entry_get(entry, "inbed")>>
             \o values_from(Tail(ds), calendar)

build_wide_row(segment_id, calendar, start_date, end_date) ==
    LET sorted_dates == filtered_dates(calendar, start_date, end_date)
    IN  [header |-> <<STR_ID>> \o header_from(1, Len(sorted_dates)),
         values |-> <<segment_id>> \o values_from(sorted_dates, calendar)]

\* Mutant: the cells are fetched with entry.setdefault(key, ""), which stores the
\* default in the calendar entry of every date read.
read_entries_setdefault(cal, ds) ==
    [d \in DOMAIN cal |->
        IF \E i \in 1..Len(ds) : ds[i] = d
        THEN [f \in {"wakeup", "inbed"} |-> entry_get(cal[d], f)]
        ELSE cal[d]]

\* The calendar as build_wide_row leaves it: entry = calendar[cal_date] and
\* entry.get(key, "") only read.
read_entries(cal, ds) == cal

calendar_after_row(seg, cal) ==
    read_entries(cal, filtered_dates(cal, seg.start_date, seg.end_date))

RECURSIVE calendar_after_rows(_, _)
calendar_after_rows(segs, cal) ==
    IF segs = <<>> THEN cal
    ELSE calendar_after_rows(Tail(segs), calendar_after_row(Head(segs), cal))

seg_row(seg, calendar) ==
    build_wide_row(seg.id, calendar, seg.start_date, seg.end_date)

\* Mutant: the header of the first segment is taken, whatever its width.
max_by_len_first(hs) == hs[1]

\* max(..., key=len): the first element of greatest length
RECURSIVE max_by_len(_)
max_by_len(hs) ==
    IF Len(hs) = 1 THEN hs[1]
    ELSE LET rest == max_by_len(Tail(hs))
         IN  IF Len(rest) > Len(hs[1]) THEN rest ELSE hs[1]

RECURSIVE pad_to(_, _)
pad_to(row, n) == IF Len(row) < n THEN pad_to(Append(row, EmptyStr), n) ELSE row

\* Mutant: max_cols tracks the width of the latest row instead of the widest.
Max2_latest(a, b) == b

Max2(a, b) == IF a >= b THEN a ELSE b

\* ------------------------------------------------------------------------
\* Inputs
\* ------------------------------------------------------------------------
SeqsUpTo(S, n) == UNION {[1..m -> S] : m \in 0..n}

Subject == <<32, 80, 47, 49>>
CsvRow(o, i) == [SUBJECT |-> Subject, Out_Bed |-> o, In_Bed |-> i]

T1 == TextCell(1, 1, 25, 1, 30)
T2 == TextCell(12, 31, 24, 23, 0)
T3 == TextCell(3, 1, 24, 7, 30)
T4 == TextCell(1, 1, 25, 12, 0)
T5 == TextCell(1, 1, 25, 7, 0)
T6 == TextCell(1, 2, 25, 23, 0)
BadCell == TextCell(13, 1, 25, 1, 30)

OutCells == {NaNCell, BadCell, T1, T4}
InCells == {NaNCell, BadCell, T1, T2, T3, T4}
CalDiaries == SeqsUpTo({CsvRow(o, i) : o \in OutCells, i \in InCells}, MaxEpisodes)
Cutoffs == {0, 12, 14}

DiaryA == <<CsvRow(T5, T1), CsvRow(T3, T6)>>
DiaryB == <<CsvRow(T4, T2)>>
DiaryC == <<CsvRow(BadCell, BadCell)>>
RowDiaries == {DiaryA, DiaryB, DiaryC}

ID_A == <<65>>
ID_B == <<66>>
Date1 == <<2024, 12, 31>>
Date2 == <<2025, 1, 1>>
IsoFormat(c) == Pad4(c[1]) \o <<45>> \o Pad2(c[2]) \o <<45>> \o Pad2(c[3])

Segment(id, s, e) == [id |-> id, start_date |-> s, end_date |-> e]
BoundChoices == {None, Some(IsoFormat(Date1)), Some(IsoFormat(Date2))}
RowSegs == {Segment(id, s, e) : id \in {ID_A, ID_B}, s \in BoundChoices, e \in BoundChoices}
RowSegLists == SeqsUpTo(RowSegs, MaxSegments)

NoJson == [given |-> FALSE, list |-> <<>>]
Json(l) == [given |-> TRUE, list |-> l]

ImportLists == {<<>>, <<Segment(ID_B, Some(IsoFormat(Date1)), Some(IsoFormat(Date2)))>>}

\* ------------------------------------------------------------------------
\* State
\* ------------------------------------------------------------------------
VARIABLES
    caller,            \* "cli": convert_sleepdiary_to_advanced, "app": the Streamlit session
    input_csv,         \* rows of the source CSV as read by pd.read_csv
    segments_json,     \* cli: the parsed segments file, or no file
    session_segments,  \* app: st.session_state.segments
    noon_cutoff,
    pc,                \* position of the conversion call
    df,                \* the frame after dropna, with out_bed_dt / in_bed_dt
    k,                 \* index of the running loop
    calendar,          \* date string -> entry, an entry being field -> time string
    log,               \* logger.warning records of the call: [field, date]
    segments,          \* the segment list the conversion iterates
    rows,
    header,            \* the header returned by the latest build_wide_row call of the row loop
    max_cols,
    result,            \* the table handed to pd.DataFrame(rows, columns=...)
    error              \* message of the exception that ended the call, or ""

vars == <<caller, input_csv, segments_json, session_segments, noon_cutoff, pc, df, k,
          calendar, log, segments, rows, header, max_cols, result, error>>

inputs == <<caller, input_csv, segments_json, noon_cutoff>>

NoResult == [present |-> FALSE, columns |-> <<>>, data |-> <<>>]
Table(h, r) == [present |-> TRUE, columns |-> h, data |-> r]

DefaultCutoff == 12

LocalsInit ==
    /\ df = <<>>
    /\ k = 1
    /\ calendar = <<>>
    /\ log = <<>>
    /\ segments = <<>>
    /\ rows = <<>>
    /\ header = <<>>
    /\ max_cols = 0
    /\ result = NoResult
    /\ error = ""

ResetLocals ==
    /\ df' = <<>>
    /\ k' = 1
    /\ calendar' = <<>>
    /\ log' = <<>>
    /\ segments' = <<>>
    /\ rows' = <<>>
    /\ header' = <<>>
    /\ max_cols' = 0
    /\ result' = NoResult
    /\ error' = ""

InitCalendar ==
    /\ caller = "cli"
    /\ input_csv \in CalDiaries
    /\ noon_cutoff \in Cutoffs
    /\ segments_json = NoJson
    /\ session_segments = <<>>
    /\ pc = "read"
    /\ LocalsInit

InitRows ==
    /\ caller = "cli"
    /\ input_csv \in RowDiaries
    /\ noon_cutoff = DefaultCutoff
    /\ segments_json \in {Json(l) : l \in RowSegLists}
    /\ session_segments = <<>>
    /\ pc = "read"
    /\ LocalsInit

InitApp ==
    /\ caller = "app"
    /\ input_csv \in {DiaryA, DiaryB, DiaryC}
    /\ noon_cutoff = DefaultCutoff
    /\ segments_json = NoJson
    /\ session_segments = <<>>
    /\ pc = "idle"
    /\ LocalsInit

Init == InitCalendar \/ InitRows \/ InitApp

\* ------------------------------------------------------------------------
\* build_calendar
\* ------------------------------------------------------------------------
has_field(cal, cal_date, field) ==
    cal_date \in DOMAIN cal /\ field \in DOMAIN cal[cal_date]

\* Mutant: the latest episode overwrites the field (last-write-wins).
place_overwrite(cal, cal_date, field, value) ==
    IF cal_date \in DOMAIN cal
    THEN [cal EXCEPT ![cal_date] = (field :> value) @@ @]
    ELSE (cal_date :> (field :> value)) @@ cal

\* entry = calendar.setdefault(cal_date, {}); if field not in entry: entry[field] = value
place(cal, cal_date, field, value) ==
    IF cal_date \in DOMAIN cal
    THEN IF field \in DOMAIN cal[cal_date]
         THEN cal
         ELSE [cal EXCEPT ![cal_date] = (field :> value) @@ @]
    ELSE (cal_date :> (field :> value)) @@ cal

\* Mutant: the duplicate test looks at the date only, not at the field of its entry.
warn_on_date(lg, cal, cal_date, field) ==
    IF cal_date \in DOMAIN cal
    THEN Append(lg, [field |-> field, date |-> cal_date])
    ELSE lg

\* else: logger.warning("Duplicate <field> for %s ...", cal_date)
warn(lg, cal, cal_date, field) ==
    IF has_field(cal, cal_date, field)
    THEN Append(lg, [field |-> field, date |-> cal_date])
    ELSE lg

dropna(csv) ==
    SelectSeq(csv, LAMBDA r : ~(r.Out_Bed.kind = "nan" /\ r.In_Bed.kind = "nan"))

parse_columns(frame) ==
    [i \in 1..Len(frame) |->
        [SUBJECT    |-> frame[i].SUBJECT,
         Out_Bed    |-> frame[i].Out_Bed,
         In_Bed     |-> frame[i].In_Bed,
         out_bed_dt |-> to_datetime(frame[i].Out_Bed),
         in_bed_dt  |-> to_datetime(frame[i].In_Bed)]]

participant_id(frame) == sanitise_id(Strip(frame[1].SUBJECT))

\* ------------------------------------------------------------------------
\* The conversion call, step by step
\* ------------------------------------------------------------------------
ReadAndParse ==
    /\ pc = "read"
    /\ LET kept == dropna(input_csv)
       IN  IF kept = <<>>
           THEN /\ error' = "No usable rows"
                /\ pc' = "failed"
                /\ df' = kept
           ELSE /\ df' = parse_columns(kept)
                /\ pc' = "place_wakeup"
                /\ error' = error
    /\ k' = 1
    /\ UNCHANGED <<inputs, session_segments, calendar, log, segments, rows, header, max_cols, result>>

PlaceWakeup ==
    /\ pc = "place_wakeup"
    /\ LET out_dt == df[k].out_bed_dt
       IN  IF notna(out_dt)
           THEN LET cal_date == calendar_date_for_wakeup(out_dt)
                IN  /\ calendar' = place(calendar, cal_date, "wakeup", fmt_time(out_dt))
                    /\ log' = warn(log, calendar, cal_date, "wakeup")
           ELSE UNCHANGED <<calendar, log>>
    /\ pc' = "place_inbed"
    /\ UNCHANGED <<inputs, session_segments, df, k, segments, rows, header, max_cols, result, error>>

PlaceInbed ==
    /\ pc = "place_inbed"
    /\ LET in_dt == df[k].in_bed_dt
       IN  IF notna(in_dt)
           THEN LET cal_date == calendar_date_for_inbed(in_dt, noon_cutoff)
                IN  /\ calendar' = place(calendar, cal_date, "inbed", fmt_time(in_dt))
                    /\ log' = warn(log, calendar, cal_date, "inbed")
           ELSE UNCHANGED <<calendar, log>>
    /\ IF k < Len(df)
       THEN k' = k + 1 /\ pc' = "place_wakeup"
       ELSE k' = 1 /\ pc' = "load_segments"
    /\ UNCHANGED <<inputs, session_segments, df, segments, rows, header, max_cols, result, error>>

LoadSegments ==
    /\ pc = "load_segments"
    /\ segments' = IF caller = "app" THEN session_segments
                   ELSE IF segments_json.given THEN segments_json.list
                   ELSE <<Segment(participant_id(df), None, None)>>
    /\ pc' = IF segments' = <<>> THEN "header" ELSE "rows"
    /\ k' = 1
    /\ UNCHANGED <<inputs, session_segments, df, calendar, log, rows, header, max_cols, result, error>>

BuildRow ==
    /\ pc = "rows"
    /\ LET r == seg_row(segments[k], calendar)
       IN  /\ rows' = Append(rows, r.values)
           /\ header' = r.header
           /\ max_cols' = Max2(max_cols, Len(r.values))
    /\ IF k < Len(segments)
       THEN k' = k + 1 /\ pc' = "rows"
       ELSE k' = 1 /\ pc' = "pad"
    /\ calendar' = calendar_after_row(segments[k], calendar)
    /\ UNCHANGED <<inputs, session_segments, df, log, segments, result, error>>

PadRow ==
    /\ pc = "pad"
    /\ rows' = [rows EXCEPT ![k] = pad_to(@, max_cols)]
    /\ IF k < Len(rows)
       THEN k' = k + 1 /\ pc' = "pad"
       ELSE k' = 1 /\ pc' = "header"
    /\ UNCHANGED <<inputs, session_segments, df, calendar, log, segments, header, max_cols, result, error>>

longest_header(segs, cal, width) ==
    pad_to(max_by_len([i \in 1..Len(segs) |-> seg_row(segs[i], cal).header]), width)

LongestHeader ==
    /\ pc = "header"
    /\ IF segments = <<>>
       THEN /\ error' = "max() arg is an empty sequence"
            /\ pc' = "failed"
            /\ result' = result
       ELSE LET h == longest_header(segments, calendar, max_cols)
            IN  IF \E i \in 1..Len(rows) : Len(rows[i]) /= Len(h)
                THEN /\ error' = "columns passed do not match the data"
                     /\ pc' = "failed"
                     /\ result' = result
                ELSE /\ result' = Table(h, rows)
                     /\ pc' = "done"
                     /\ error' = error
    /\ calendar' = calendar_after_rows(segments, calendar)
    /\ UNCHANGED <<inputs, session_segments, df, k, log, segments, rows, header, max_cols>>

\* ------------------------------------------------------------------------
\* The Streamlit session (one script run per interaction)
\* ------------------------------------------------------------------------
AppReady == caller = "app" /\ pc \in {"idle", "done", "failed"}

AddSegment(seg_id, seg_start, seg_end) ==
    /\ AppReady
    /\ Len(session_segments) < MaxSegments
    /\ Strip(seg_id) /= EmptyStr
    /\ DaysFromCivil(seg_start[1], seg_start[2], seg_start[3])
         <= DaysFromCivil(seg_end[1], seg_end[2], seg_end[3])
    /\ session_segments' = Append(session_segments,
           Segment(Strip(seg_id), Some(IsoFormat(seg_start)), Some(IsoFormat(seg_end))))
    /\ pc' = "idle"
    /\ ResetLocals
    /\ UNCHANGED inputs

DeleteSegment(i) ==
    /\ AppReady
    /\ session_segments /= <<>>
    /\ i \in 1..Len(session_segments)
    /\ session_segments' = SubSeq(session_segments, 1, i - 1)
                           \o SubSeq(session_segments, i + 1, Len(session_segments))
    /\ pc' = "idle"
    /\ ResetLocals
    /\ UNCHANGED inputs

ImportSegments(imported) ==
    /\ AppReady
    /\ session_segments /= <<>>
    /\ session_segments' = imported
    /\ pc' = "idle"
    /\ ResetLocals
    /\ UNCHANGED inputs

ClearSegments ==
    /\ AppReady
    /\ session_segments /= <<>>
    /\ session_segments' = <<>>
    /\ pc' = "idle"
    /\ ResetLocals
    /\ UNCHANGED inputs

ClickConvert ==
    /\ AppReady
    /\ session_segments /= <<>>
    /\ pc' = "read"
    /\ ResetLocals
    /\ UNCHANGED <<inputs, session_segments>>

Next ==
    \/ ReadAndParse
    \/ PlaceWakeup
    \/ PlaceInbed
    \/ LoadSegments
    \/ BuildRow
    \/ PadRow
    \/ LongestHeader
    \/ \E seg_id \in {ID_A, ID_B}, seg_start \in {Date1, Date2}, seg_end \in {Date1, Date2} :
           AddSegment(seg_id, seg_start, seg_end)
    \/ \E i \in 1..MaxSegments : DeleteSegment(i)
    \/ \E imported \in ImportLists : ImportSegments(imported)
    \/ ClearSegments
    \/ ClickConvert

Spec == Init /\ [][Next]_vars

\* ------------------------------------------------------------------------
\* Vocabulary of the properties: civil dates read off the CSV text itself
\* ------------------------------------------------------------------------
CellCivil(cell) ==
    <<IF cell.yy < 69 THEN 2000 + cell.yy ELSE 1900 + cell.yy, cell.mo, cell.dd>>

PrevCivil(c) ==
    IF c[3] > 1 THEN <<c[1], c[2], c[3] - 1>>
    ELSE IF c[2] > 1 THEN <<c[1], c[2] - 1, DaysInMonth(c[1], c[2] - 1)>>
    ELSE <<c[1] - 1, 12, 31>>

CivilLess(a, b) ==
    \/ a[1] < b[1]
    \/ a[1] = b[1] /\ a[2] < b[2]
    \/ a[1] = b[1] /\ a[2] = b[2] /\ a[3] < b[3]

IsDigit(c) == c \in 48..57

WellFormedDate(s) ==
    /\ Len(s) = 10
    /\ s[5] = 45 /\ s[8] = 45
    /\ \A i \in {1, 2, 3, 4, 6, 7, 9, 10} : IsDigit(s[i])

DecodeDate(s) ==
    <<1000 * (s[1] - 48) + 100 * (s[2] - 48) + 10 * (s[3] - 48) + (s[4] - 48),
      10 * (s[6] - 48) + (s[7] - 48),
      10 * (s[9] - 48) + (s[10] - 48)>>

WellFormedTime(s) ==
    /\ Len(s) = 8
    /\ s[3] = 58 /\ s[6] = 58
    /\ \A i \in {1, 2, 4, 5, 7, 8} : IsDigit(s[i])

DecodeTime(s) ==
    <<10 * (s[1] - 48) + (s[2] - 48), 10 * (s[4] - 48) + (s[5] - 48),
      10 * (s[7] - 48) + (s[8] - 48)>>

\* The civil date a field of an episode is to be placed on
ExpectedDate(row, field, cutoff) ==
    IF field = "wakeup" THEN CellCivil(row.Out_Bed)
    ELSE IF row.In_Bed.HH >= cutoff THEN CellCivil(row.In_Bed)
    ELSE PrevCivil(CellCivil(row.In_Bed))

FieldCell(row, field) == IF field = "wakeup" THEN row.Out_Bed ELSE row.In_Bed
FieldPresent(row, field) ==
    IF field = "wakeup" THEN notna(row.out_bed_dt) ELSE notna(row.in_bed_dt)

\* ------------------------------------------------------------------------
\* C1: in build_calendar every present bed timestamp t is placed on the
\* calendar date of t when hour(t) >= cutoff and on the day before when
\* hour(t) < cutoff, month and year boundaries included; the step touches
\* no other date (it sets the inbed field there, or names that date in the
\* duplicate warning).
\* ------------------------------------------------------------------------
C1_InbedPlacement ==
    [][(pc = "place_inbed" /\ notna(df[k].in_bed_dt)) =>
         LET want == ExpectedDate(df[k], "inbed", noon_cutoff)
         IN  \E d \in DOMAIN calendar' :
               /\ WellFormedDate(d)
               /\ DecodeDate(d) = want
               /\ "inbed" \in DOMAIN calendar'[d]
               /\ \A e \in DOMAIN calendar' \ {d} :
                     e \in DOMAIN calendar /\ calendar'[e] = calendar[e]
               /\ DOMAIN calendar \subseteq DOMAIN calendar'
               /\ IF has_field(calendar, d, "inbed")
                  THEN /\ calendar' = calendar
                       /\ log' = Append(log, [field |-> "inbed", date |-> d])
                  ELSE /\ log' = log
                       /\ DecodeTime(calendar'[d]["inbed"])
                            = <<df[k].In_Bed.HH, df[k].In_Bed.MM, 0>>
      ]_vars

\* A bedtime stamped 2025-01-01 01:30 stored under 2024-12-31 (cutoff 12), and one
\* stamped 2024-03-01 07:30 stored under the leap day 2024-02-29.
C1_Witness ==
    /\ pc = "load_segments"
    /\ noon_cutoff = 12
    /\ has_field(calendar, IsoFormat(<<2024, 12, 31>>), "inbed")
    /\ DecodeTime(calendar[IsoFormat(<<2024, 12, 31>>)]["inbed"]) = <<1, 30, 0>>
    /\ has_field(calendar, IsoFormat(<<2024, 2, 29>>), "inbed")

\* ------------------------------------------------------------------------
\* Episodes already handled by the build_calendar loop, per field
\* ------------------------------------------------------------------------
CalendarPcs == {"place_wakeup", "place_inbed"}
AfterCalendarPcs == {"load_segments", "rows", "pad", "header", "done"}
CallPcs == CalendarPcs \cup AfterCalendarPcs

Handled(field) ==
    IF pc \in AfterCalendarPcs THEN 1..Len(df)
    ELSE IF pc = "place_wakeup" THEN 1..(k - 1)
    ELSE IF pc = "place_inbed" THEN (IF field = "wakeup" THEN 1..k ELSE 1..(k - 1))
    ELSE {}

\* Episodes (in input order) whose field is present and belongs on civil date c
PlacedOn(c, field) ==
    {i \in 1..Len(df) : FieldPresent(df[i], field)
                         /\ ExpectedDate(df[i], field, noon_cutoff) = c}

Lowest(S) == CHOOSE i \in S : \A j \in S : i <= j

\* ------------------------------------------------------------------------
\* C2: first-write-wins.  No step of the call changes a calendar field
\* that is set, and every set field holds the time of day of the first
\* episode, in input order, placed on that date for that field.
\* ------------------------------------------------------------------------
C2_FirstWriteWins ==
    [][(pc \in CallPcs /\ pc' \in CallPcs) =>
         /\ \A d \in DOMAIN calendar : \A f \in DOMAIN calendar[d] :
               has_field(calendar', d, f) /\ calendar'[d][f] = calendar[d][f]
         /\ \A d \in DOMAIN calendar' : \A f \in DOMAIN calendar'[d] :
               LET S == PlacedOn(DecodeDate(d), f)
               IN  /\ S /= {}
                   /\ WellFormedTime(calendar'[d][f])
                   /\ DecodeTime(calendar'[d][f])
                        = <<FieldCell(df[Lowest(S)], f).HH, FieldCell(df[Lowest(S)], f).MM, 0>>
      ]_vars

\* Bedtimes 23:00 (stamped 2024-12-31) then 01:30 (stamped 2025-01-01) both belong
\* on 2024-12-31; the calendar keeps 23:00.
C2_Witness ==
    /\ pc = "load_segments"
    /\ noon_cutoff = 12
    /\ Len(df) = 2
    /\ df[1].In_Bed = T2
    /\ df[2].In_Bed = T1
    /\ DecodeTime(calendar[IsoFormat(<<2024, 12, 31>>)]["inbed"]) = <<23, 0, 0>>
    /\ log /= <<>>

OwnDateWakers(c, upto) ==
    {i \in upto : notna(df[i].out_bed_dt) /\ CellCivil(df[i].Out_Bed) = c}

\* ------------------------------------------------------------------------
\* C7: every present wake timestamp is placed on its own calendar date,
\* whatever the cutoff: at every point of the call the dates that carry a
\* wakeup are exactly the own dates of the wake timestamps handled so far,
\* each with the time of the first of them (no cutoff enters).
\* ------------------------------------------------------------------------
C7_WakeupOwnDate ==
    pc \in CallPcs =>
      /\ \A i \in Handled("wakeup") :
            notna(df[i].out_bed_dt) =>
              has_field(calendar, IsoFormat(CellCivil(df[i].Out_Bed)), "wakeup")
      /\ \A d \in DOMAIN calendar :
            "wakeup" \in DOMAIN calendar[d] =>
              LET S == OwnDateWakers(DecodeDate(d), Handled("wakeup"))
              IN  /\ WellFormedDate(d)
                  /\ S /= {}
                  /\ DecodeTime(calendar[d]["wakeup"])
                       = <<df[Lowest(S)].Out_Bed.HH, df[Lowest(S)].Out_Bed.MM, 0>>

\* A wakeup at 01:30, an hour below the cutoff in force (14), stays on 2025-01-01.
C7_Witness ==
    /\ pc = "load_segments"
    /\ noon_cutoff = 14
    /\ \E i \in 1..Len(df) : df[i].Out_Bed = T1
    /\ has_field(calendar, IsoFormat(<<2025, 1, 1>>), "wakeup")
    /\ ~has_field(calendar, IsoFormat(<<2024, 12, 31>>), "wakeup")

PlEpisode(p) == (p + 1) \div 2
PlField(p) == IF p % 2 = 1 THEN "wakeup" ELSE "inbed"
PlPresent(p) == FieldPresent(df[PlEpisode(p)], PlField(p))
PlDate(p) == ExpectedDate(df[PlEpisode(p)], PlField(p), noon_cutoff)

Collides(p) ==
    /\ PlPresent(p)
    /\ \E q \in 1..(p - 1) :
          PlPresent(q) /\ PlField(q) = PlField(p) /\ PlDate(q) = PlDate(p)

RECURSIVE ExpectedWarnings(_)
ExpectedWarnings(n) ==
    IF n = 0 THEN <<>>
    ELSE ExpectedWarnings(n - 1)
         \o (IF Collides(n) THEN <<[field |-> PlField(n), date |-> PlDate(n)]>> ELSE <<>>)

PlacementsDone ==
    IF pc \in AfterCalendarPcs THEN 2 * Len(df)
    ELSE IF pc = "place_wakeup" THEN 2 * (k - 1)
    ELSE IF pc = "place_inbed" THEN 2 * k - 1
    ELSE 0

\* ------------------------------------------------------------------------
\* C10: duplicate placements are surfaced and non-fatal.  Placements are
\* numbered in processing order (2i-1: wakeup of episode i, 2i: its
\* bedtime).  The warnings logged so far are exactly, in order, the
\* placements handled so far whose date already had that field set by an
\* earlier placement, each naming that date and field; a placement into an
\* unset field logs nothing; the call fails only for want of usable rows
\* or of segments, never because of a duplicate; so a returned table always
\* comes with the complete list of its collisions.
\* ------------------------------------------------------------------------
C10_DuplicateWarnings ==
    /\ pc \in CallPcs =>
         LET want == ExpectedWarnings(PlacementsDone)
         IN  /\ Len(log) = Len(want)
             /\ \A n \in 1..Len(log) :
                   /\ log[n].field = want[n].field
                   /\ WellFormedDate(log[n].date)
                   /\ DecodeDate(log[n].date) = want[n].date
    /\ pc = "failed" => (dropna(input_csv) = <<>> \/ segments = <<>>)
    /\ result.present => pc = "done"

\* A table is returned for a diary whose second episode collides with the first on
\* both fields; both warnings are on record.
C10_Witness ==
    /\ pc = "done"
    /\ result.present
    /\ Len(log) = 2
    /\ log[1].field = "wakeup"
    /\ log[2].field = "inbed"
    /\ log[1].date /= log[2].date

\* ------------------------------------------------------------------------
\* Rows as build_wide_row returned them (not yet padded)
\* ------------------------------------------------------------------------
Unpadded(j) ==
    /\ j \in 1..Len(rows)
    /\ pc = "rows" \/ (pc = "pad" /\ j >= k)

InRange(c, seg) ==
    /\ seg.start_date.none \/ ~CivilLess(c, DecodeDate(seg.start_date.str))
    /\ seg.end_date.none \/ ~CivilLess(DecodeDate(seg.end_date.str), c)

Matching(seg) == {d \in DOMAIN calendar : InRange(DecodeDate(d), seg)}

RowDateCount(row) == (Len(row) - 1) \div 3
RowDate(row, i) == row[3 * i - 1]

\* ------------------------------------------------------------------------
\* C3: the dates in the row build_wide_row returns for a segment are
\* exactly the calendar dates d with d >= startDate (if given) and
\* d <= endDate (if given), bounds inclusive, each once, in strictly
\* ascending order; a segment without bounds holds every calendar date.
\* ------------------------------------------------------------------------
C3_RowDates ==
    \A j \in 1..Len(rows) :
       Unpadded(j) =>
         LET row == rows[j]
             n   == RowDateCount(row)
         IN  /\ Len(row) = 1 + 3 * n
             /\ {RowDate(row, i) : i \in 1..n} = Matching(segments[j])
             /\ \A i \in 1..(n - 1) :
                   CivilLess(DecodeDate(RowDate(row, i)), DecodeDate(RowDate(row, i + 1)))

\* A four-date calendar and a segment from 2025-01-01 to 2025-01-01: one date column
\* (both bounds met exactly); the other row, with no bounds, holds all four dates.
C3_Witness ==
    /\ pc = "pad"
    /\ k = 1
    /\ Cardinality(DOMAIN calendar) = 4
    /\ Len(rows) = 2
    /\ segments[1].start_date = Some(IsoFormat(Date2))
    /\ segments[1].end_date = Some(IsoFormat(Date2))
    /\ Len(rows[1]) = 4
    /\ segments[2].start_date = None
    /\ segments[2].end_date = None
    /\ Len(rows[2]) = 13

ExpectedLabel(i, suffix) == <<68, 48 + i, 95>> \o suffix

NthMatching(seg, i) ==
    CHOOSE d \in Matching(seg) :
        Cardinality({e \in Matching(seg) : CivilLess(DecodeDate(e), DecodeDate(d))}) = i - 1

FieldOrEmpty(d, f) == IF has_field(calendar, d, f) THEN calendar[d][f] ELSE <<>>

\* ------------------------------------------------------------------------
\* C8: for a segment matching n calendar dates build_wide_row returns a
\* header and a value list of length 1 + 3n: ID, then D{i}_date,
\* D{i}_wakeup, D{i}_inbed for i = 1..n; the segment id, then for the i-th
\* date (ascending) the date, its wakeup time or "", its bedtime or "".
\* For n = 0 the row is [segmentId] under header [ID].
\* ------------------------------------------------------------------------
C8_RowShape ==
    (pc \in {"rows", "pad"} /\ rows /= <<>>) =>
      LET j    == Len(rows)
          seg  == segments[j]
          vals == rows[j]
          n    == Cardinality(Matching(seg))
      IN  /\ Len(header) = 1 + 3 * n
          /\ Len(vals) = 1 + 3 * n
          /\ header[1] = <<73, 68>>
          /\ vals[1] = seg.id
          /\ \A i \in 1..n :
                /\ header[3 * i - 1] = ExpectedLabel(i, <<100, 97, 116, 101>>)
                /\ header[3 * i] = ExpectedLabel(i, <<119, 97, 107, 101, 117, 112>>)
                /\ header[3 * i + 1] = ExpectedLabel(i, <<105, 110, 98, 101, 100>>)
                /\ vals[3 * i - 1] = NthMatching(seg, i)
                /\ vals[3 * i] = FieldOrEmpty(NthMatching(seg, i), "wakeup")
                /\ vals[3 * i + 1] = FieldOrEmpty(NthMatching(seg, i), "inbed")

\* A segment from 2025-01-01 to 2024-12-31 matches nothing in a non-empty calendar and
\* yields [id] under [ID]; the segment before it yielded two dates, one with only a
\* wakeup and one with only a bedtime.
C8_Witness ==
    /\ pc = "pad"
    /\ k = 1
    /\ Len(rows) = 2
    /\ Cardinality(DOMAIN calendar) = 4
    /\ rows[2] = <<segments[2].id>>
    /\ header = <<STR_ID>>
    /\ Len(rows[1]) = 7
    /\ rows[1][3] = <<>> /\ rows[1][4] /= <<>>
    /\ rows[1][6] /= <<>> /\ rows[1][7] = <<>>

\* ------------------------------------------------------------------------
\* The rows as built, and the width of the widest of them
\* ------------------------------------------------------------------------
UnpaddedRow(j) == seg_row(segments[j], calendar).values
MaxWidth ==
    LET ws == {Len(UnpaddedRow(j)) : j \in 1..Len(segments)}
    IN  CHOOSE w \in ws : \A v \in ws : v <= w
FirstWidest == Lowest({j \in 1..Len(segments) : Len(UnpaddedRow(j)) = MaxWidth})

\* ------------------------------------------------------------------------
\* C4: for a non-empty segment list the returned table is rectangular:
\* the header and every row have length maxWidth, the greatest unpadded
\* row length; every row is its unpadded row followed by empty strings
\* only; and assembling never fails on a width mismatch.
\* ------------------------------------------------------------------------
C4_Rectangular ==
    /\ error /= "columns passed do not match the data"
    /\ (pc = "done" /\ segments /= <<>>) =>
         /\ result.present
         /\ Len(result.data) = Len(segments)
         /\ Len(result.columns) = MaxWidth
         /\ \A j \in 1..Len(segments) :
               LET row == result.data[j]
                   un  == UnpaddedRow(j)
               IN  /\ Len(row) = MaxWidth
                   /\ SubSeq(row, 1, Len(un)) = un
                   /\ \A i \in (Len(un) + 1)..MaxWidth : row[i] = <<>>

\* A row of width 1 (segment matching nothing) padded beside a row of width 13.
C4_Witness ==
    /\ pc = "done"
    /\ Len(segments) = 2
    /\ Len(UnpaddedRow(1)) = 1
    /\ Len(UnpaddedRow(2)) = 13
    /\ Len(result.data[1]) = 13
    /\ result.data[1][13] = <<>>

\* ------------------------------------------------------------------------
\* C9: the table header is the header built for the first segment, in
\* segment order, among those with the widest row; it has length maxWidth
\* with no padding cell, and labels the widest row position by position:
\* ID over the segment id, D{i}_date over its i-th date, D{i}_wakeup and
\* D{i}_inbed over that date's wakeup and bedtime.
\* ------------------------------------------------------------------------
C9_WidestHeader ==
    (pc = "done" /\ segments /= <<>>) =>
      LET w   == FirstWidest
          hdr == result.columns
          row == result.data[w]
          n   == (MaxWidth - 1) \div 3
      IN  /\ hdr = seg_row(segments[w], calendar).header
          /\ Len(hdr) = MaxWidth
          /\ \A i \in 1..Len(hdr) : hdr[i] /= <<>>
          /\ hdr[1] = <<73, 68>>
          /\ row[1] = segments[w].id
          /\ \A i \in 1..n :
                /\ hdr[3 * i - 1] = ExpectedLabel(i, <<100, 97, 116, 101>>)
                /\ row[3 * i - 1] \in DOMAIN calendar
                /\ hdr[3 * i] = ExpectedLabel(i, <<119, 97, 107, 101, 117, 112>>)
                /\ row[3 * i] = FieldOrEmpty(row[3 * i - 1], "wakeup")
                /\ hdr[3 * i + 1] = ExpectedLabel(i, <<105, 110, 98, 101, 100>>)
                /\ row[3 * i + 1] = FieldOrEmpty(row[3 * i - 1], "inbed")

\* The widest row belongs to the second segment: the header is not the first
\* segment's own.
C9_Witness ==
    /\ pc = "done"
    /\ Len(segments) = 2
    /\ FirstWidest = 2
    /\ Len(result.columns) = 7
    /\ Len(seg_row(segments[1], calendar).header) = 4

AllAbsent ==
    \A i \in 1..Len(input_csv) :
        to_datetime(input_csv[i].Out_Bed).nat /\ to_datetime(input_csv[i].In_Bed).nat

\* ------------------------------------------------------------------------
\* C5: if every input episode has both timestamps absent (a timestamp
\* that fails to parse counts as absent), the call fails with the
\* no-usable-rows error and returns no table: it never completes, and
\* never hands back a table built from an empty calendar.
\* ------------------------------------------------------------------------
C5_NoUsableRows ==
    AllAbsent =>
      /\ ~result.present
      /\ pc /= "done"

\* What the code does guarantee: rows whose two cells are both empty are dropped before
\* the emptiness test, so a diary of such rows only is rejected.
C5_EmptyCellsRejected ==
    (\A i \in 1..Len(input_csv) :
        input_csv[i].Out_Bed.kind = "nan" /\ input_csv[i].In_Bed.kind = "nan")
      => /\ ~result.present
         /\ pc \in {"read", "failed"}
         /\ pc = "failed" => error = "No usable rows"

\* ------------------------------------------------------------------------
\* C6: an empty segment list is rejected before table assembly is
\* reached: the row loop, the padding and the header selection are never
\* entered with an empty list, no rows are built and no table is returned
\* for it; in the Streamlit session a conversion runs only while the
\* session's segment list is non-empty.
\* ------------------------------------------------------------------------
C6_EmptySegmentsRejected ==
    /\ pc \in {"rows", "pad", "header"} => segments /= <<>>
    /\ pc = "done" => (segments /= <<>> /\ rows /= <<>>)
    /\ (caller = "app" /\ pc \in {"read"} \cup CallPcs) => session_segments /= <<>>

\* What the code does guarantee for an empty list: no row, no table, and the call ends
\* in the ValueError of max() over no headers; and the session guard of the app.
C6_EmptyListOutcome ==
    /\ (pc \in AfterCalendarPcs \ {"load_segments"} /\ segments = <<>>) =>
          /\ rows = <<>>
          /\ ~result.present
          /\ pc = "header"
    /\ (pc = "failed" /\ df /= <<>>) =>
          (segments = <<>> /\ error = "max() arg is an empty sequence")
    /\ (caller = "app" /\ pc \in {"read"} \cup CallPcs) => session_segments /= <<>>

\* ------------------------------------------------------------------------
\* Date columns of a built row (a padding cell is the empty string, a date
\* never is)
\* ------------------------------------------------------------------------
DateSlots(row) == {i \in 1..RowDateCount(row) : RowDate(row, i) /= <<>>}

\* The header the second pass computes for segment j agrees with what the
\* first pass built: it is as long as the row's own cells, and for the
\* segment built last it is the very header the row loop still holds.
SecondPassAgrees ==
    (pc \in {"rows", "pad", "header", "done"} /\ rows /= <<>>) =>
      /\ header = seg_row(segments[Len(rows)], calendar).header
      /\ \A j \in 1..Len(rows) :
            LET again == seg_row(segments[j], calendar).header
            IN  /\ Len(again) = 1 + 3 * Cardinality(DateSlots(rows[j]))
                /\ \A i \in DateSlots(rows[j]) :
                      again[3 * i - 1] = ExpectedLabel(i, <<100, 97, 116, 101>>)

\* A date in the range of two segments is in both rows, with the same cells.
OverlapAgrees ==
    pc \in {"rows", "pad", "header", "done"} =>
      \A j1 \in 1..Len(rows), j2 \in 1..Len(rows) :
         \A d \in Matching(segments[j1]) \cap Matching(segments[j2]) :
            \E i1 \in DateSlots(rows[j1]), i2 \in DateSlots(rows[j2]) :
               /\ RowDate(rows[j1], i1) = d
               /\ RowDate(rows[j2], i2) = d
               /\ rows[j1][3 * i1] = rows[j2][3 * i2]
               /\ rows[j1][3 * i1 + 1] = rows[j2][3 * i2 + 1]
               /\ rows[j1][3 * i1] = FieldOrEmpty(d, "wakeup")
               /\ rows[j1][3 * i1 + 1] = FieldOrEmpty(d, "inbed")

\* The calendar is what build_calendar made of the episodes: its dates are the dates
\* the present fields belong on, each entry holds exactly the fields placed on its
\* date, each with the time of the first episode placed there.
CalendarAsBuilt ==
    /\ \A i \in 1..Len(df) : \A f \in {"wakeup", "inbed"} :
          FieldPresent(df[i], f) =>
             has_field(calendar, IsoFormat(ExpectedDate(df[i], f, noon_cutoff)), f)
    /\ \A d \in DOMAIN calendar :
          /\ WellFormedDate(d)
          /\ DOMAIN calendar[d] = {f \in {"wakeup", "inbed"} : PlacedOn(DecodeDate(d), f) /= {}}
          /\ DOMAIN calendar[d] /= {}
          /\ \A f \in DOMAIN calendar[d] :
                LET cell == FieldCell(df[Lowest(PlacedOn(DecodeDate(d), f))], f)
                IN  /\ WellFormedTime(calendar[d][f])
                    /\ DecodeTime(calendar[d][f]) = <<cell.HH, cell.MM, 0>>

\* ------------------------------------------------------------------------
\* C11: the calendar is read-only once build_calendar has returned: while
\* the segments are loaded, the rows built and padded and the widest
\* header recomputed, and in the returned result, it is still the
\* calendar build_calendar made; hence the header recomputed for a segment
\* in the second pass is the one built in the first, and a date covered by
\* two overlapping segments is in both rows with the same wakeup and
\* bedtime cells.
\* ------------------------------------------------------------------------
C11_CalendarReadOnly ==
    pc \in AfterCalendarPcs =>
      /\ CalendarAsBuilt
      /\ SecondPassAgrees
      /\ OverlapAgrees

\* Two unbounded segments over a four-date calendar: every date is in both rows of
\* the returned table, and the calendar still is what build_calendar made of it.
C11_Witness ==
    /\ pc = "done"
    /\ result.present
    /\ Len(segments) = 2
    /\ Cardinality(DOMAIN calendar) = 4
    /\ Matching(segments[1]) \cap Matching(segments[2]) = DOMAIN calendar
    /\ \A d \in DOMAIN calendar : Cardinality(DOMAIN calendar[d]) = 1
    /\ result.data[1][3] /= result.data[1][4]
====
